---- MODULE Spec2Model ----
(***************************************************************************)
(* Session backend (src/backend.py): a sqlite table of session rows, JWT   *)
(* bearer tokens minted by create_session, the request handlers            *)
(* heartbeat / end_session / me, and the background cleanup_loop.          *)
(*                                                                         *)
(* Time is the integer clock returned by now() (whole seconds).  A         *)
(* statement with its commit is one atomic store step.  A handler's first  *)
(* step is parse_auth_token and its first statement; heartbeat and me      *)
(* issue a second statement in a second step, and other requests and the   *)
(* sweep run in between.  Arguments of a statement are evaluated before    *)
(* it is awaited, so the timestamp heartbeat writes is the one it took     *)
(* when its SELECT returned.  Statements of request handlers succeed; the  *)
(* store being unavailable is modelled where the code handles it, in       *)
(* cleanup_loop.                                                           *)
(***************************************************************************)
EXTENDS Integers, FiniteSets

\* ---- bounds of the model ------------------------------------------------
MaxTime == 4
MaxInFlight == 2

\* ---- program constants (scaled to the clock of the model) ----------------
SESSION_IDLE_TIMEOUT == 2
ttl_seconds == 4

\* Session ids.  Callers are the sessions whose token holders send
\* requests, and the ids uuid4() draws for a new session; Abandoned is a
\* session a previous run of the process left in sessions.db, whose holder
\* is silent (it is left to the cleanup loop).
SIDs == {"s1", "s2"}
Callers == {"s1"}
Abandoned == "s2"
\* uuid4() draws the jti of a new session from GenJTIs; a presented token
\* carries any jti ("j2" stands for every value that was never generated).
GenJTIs == {"j1"}
JTIs == {"j1", "j2"}
Users == {7, 42}

\* str(user_id): the decimal text of the integer (make_token, "sub")
str(u) == IF u = 7 THEN "7" ELSE "42"

\* ---- bearer headers -----------------------------------------------------
\* A header is either no bearer token, or a token: its claims, whether its
\* signature / issuer / audience / structure verify (sig), and its exp.
\* The secret is shared (SHARED_SECRET), so well-signed tokens that
\* create_session never returned can be presented too: Foreign are such
\* tokens (early and late exp), BadSig a tampered copy of an issued one.
NoBearer == [bearer |-> FALSE, sig |-> FALSE, sub |-> "", sid |-> "",
             jti |-> "", exp |-> 0]
Foreign == [bearer : {TRUE}, sig : {TRUE}, sub : {"7"}, sid : Callers,
            jti : JTIs \ GenJTIs, exp : {ttl_seconds, MaxTime + ttl_seconds}]
BadSig == [bearer : {TRUE}, sig : {FALSE}, sub : {"7"}, sid : Callers,
           jti : GenJTIs, exp : {MaxTime + ttl_seconds}]

make_token(user_id, session_id, jti, t) ==
    [bearer |-> TRUE, sig |-> TRUE, sub |-> str(user_id), sid |-> session_id,
     jti |-> jti, exp |-> t + ttl_seconds]

\* mutant: jwt.decode with the signature check switched off
parse_auth_token_NoSig(hdr, t) ==
    IF ~hdr.bearer THEN "Missing bearer token"
    ELSE IF hdr.exp <= t THEN "Invalid token"
    ELSE "ok"

\* mutant: a token still passes in the second of its exp
parse_auth_token_Leeway(hdr, t) ==
    IF ~hdr.bearer THEN "Missing bearer token"
    ELSE IF ~hdr.sig \/ hdr.exp < t THEN "Invalid token"
    ELSE "ok"

\* parse_auth_token: "ok" when claims are returned, else the 401 detail.
\* jwt.decode rejects a bad signature, issuer, audience or structure, and a
\* token whose exp is not in the future.
parse_auth_token(hdr, t) ==
    IF ~hdr.bearer THEN "Missing bearer token"
    ELSE IF ~hdr.sig \/ hdr.exp <= t THEN "Invalid token"
    ELSE "ok"

\* the token create_session returned for an existing row: user_id, jti and
\* created_at are written by the INSERT alone, and make_token read the clock
\* in the second of the INSERT's first clock read
IssuedToken(tbl, sid) ==
    make_token(tbl[sid].user_id, sid, tbl[sid].jti, tbl[sid].created_at)

VARIABLES
    now,        \* the clock read by now()
    sessions,   \* the sessions table: session_id -> row
    pending,    \* handlers between their first and second statement
    resp,       \* what the last step answered (status 0: no answer yet)
    ends,       \* history: per session, how often end_session acknowledged
                \* a token matching its row (2: twice or more)
    reaper,     \* where the cleanup_loop task is: "sleep" between rounds,
                \* "dead" once an exception has left the loop
    touched,    \* history: sessions whose last_active a heartbeat has written
    acc         \* history: per session, when it last answered 200 to a
                \* heartbeat (or was created) while every gap between such
                \* answers, the running one included, is shorter than the
                \* idle timeout; -1 once a gap was not

vars == <<now, sessions, pending, resp, reaper, ends, touched, acc>>

\* what a request may carry in its Authorization header
Headers ==
    {NoBearer} \cup Foreign \cup BadSig
    \cup {IssuedToken(sessions, s) : s \in DOMAIN sessions \cap Callers}

\* ---- store statements ---------------------------------------------------
\* mutant: the SELECT without its `AND jti=?`
SelectRow_BySid(tbl, sid, jti) ==
    IF sid \in DOMAIN tbl THEN {tbl[sid]} ELSE {}

\* SELECT active, last_active FROM sessions WHERE session_id=? AND jti=?
SelectRow(tbl, sid, jti) ==
    IF sid \in DOMAIN tbl /\ tbl[sid].jti = jti THEN {tbl[sid]} ELSE {}

\* mutant: SET last_active=?, active=1
UpdateLastActive_Revive(tbl, sid, ts) ==
    [s \in DOMAIN tbl |-> IF s = sid
                          THEN [tbl[s] EXCEPT !.last_active = ts, !.active = TRUE]
                          ELSE tbl[s]]

\* UPDATE sessions SET last_active=? WHERE session_id=?
UpdateLastActive(tbl, sid, ts) ==
    [s \in DOMAIN tbl |-> IF s = sid THEN [tbl[s] EXCEPT !.last_active = ts]
                          ELSE tbl[s]]

\* mutant: the UPDATE is never committed
UpdateEnd_Lost(tbl, sid, jti) == tbl

\* mutant: SET active = NOT active
UpdateEnd_Toggle(tbl, sid, jti) ==
    [s \in DOMAIN tbl |-> IF s = sid /\ tbl[s].jti = jti
                          THEN [tbl[s] EXCEPT !.active = ~@]
                          ELSE tbl[s]]

\* UPDATE sessions SET active=0 WHERE session_id=? AND jti=?
UpdateEnd(tbl, sid, jti) ==
    [s \in DOMAIN tbl |-> IF s = sid /\ tbl[s].jti = jti
                          THEN [tbl[s] EXCEPT !.active = FALSE]
                          ELSE tbl[s]]

\* mutant: the deactivation is never committed
UpdateExpire_Lost(tbl, sid) == tbl

\* UPDATE sessions SET active=0 WHERE session_id=?
UpdateExpire(tbl, sid) ==
    [s \in DOMAIN tbl |-> IF s = sid THEN [tbl[s] EXCEPT !.active = FALSE]
                          ELSE tbl[s]]

\* mutant: last_active<=?
SweepIdle_Inclusive(tbl, cutoff) ==
    [s \in DOMAIN tbl |-> IF tbl[s].active /\ tbl[s].last_active <= cutoff
                          THEN [tbl[s] EXCEPT !.active = FALSE]
                          ELSE tbl[s]]

\* mutant: the sweep without its `AND last_active<?`
SweepIdle_All(tbl, cutoff) ==
    [s \in DOMAIN tbl |-> [tbl[s] EXCEPT !.active = FALSE]]

\* UPDATE sessions SET active=0 WHERE active=1 AND last_active<?
SweepIdle(tbl, cutoff) ==
    [s \in DOMAIN tbl |-> IF tbl[s].active /\ tbl[s].last_active < cutoff
                          THEN [tbl[s] EXCEPT !.active = FALSE]
                          ELSE tbl[s]]

\* INSERT INTO sessions(...) VALUES(s_id, user_id, now(), now(), 1, jti)
\* session_id is the PRIMARY KEY: a second row with the same id is refused
\* (ok = FALSE, sqlite3.IntegrityError) and the table stays as it was.
InsertRow(tbl, sid, user_id, t_created, t_active, jti) ==
    IF sid \in DOMAIN tbl
    THEN [ok |-> FALSE, tbl |-> tbl]
    ELSE [ok |-> TRUE,
          tbl |-> [s \in DOMAIN tbl \cup {sid} |->
                     IF s = sid
                     THEN [user_id |-> user_id, created_at |-> t_created,
                           last_active |-> t_active, active |-> TRUE,
                           jti |-> jti]
                     ELSE tbl[s]]]

\* ---- answers ------------------------------------------------------------
\* op/step: the handler and its statement; hdr: the header presented (first
\* statement); sid: claims.sid once the token is parsed; status/detail: the
\* HTTP answer (status 0: none yet); db: whether the step ran a statement on
\* the store; rem, user_id, session_id: the body.
Answer(op, step, hdr, sid, status, detail, db) ==
    [op |-> op, step |-> step, hdr |-> hdr, sid |-> sid, status |-> status,
     detail |-> detail, db |-> db, rem |-> 0, user_id |-> "", session_id |-> ""]
NoAnswer == Answer("none", "", NoBearer, "", 0, "", FALSE)

\* ---- history of accepted heartbeats --------------------------------------
AccBeat(a, t) == IF a >= 0 /\ t - a < SESSION_IDLE_TIMEOUT THEN t ELSE -1
AccTick(a, t) == IF a >= 0 /\ t - a < SESSION_IDLE_TIMEOUT THEN a ELSE -1

\* the row of the abandoned session
OldRow == [user_id |-> 7, created_at |-> 0, last_active |-> 0,
           active |-> TRUE, jti |-> "j1"]

\* init_db: CREATE TABLE IF NOT EXISTS keeps what the file holds
Init ==
    /\ now = 0
    /\ sessions \in {<< >>, [s \in {Abandoned} |-> OldRow]}
    /\ pending = {}
    /\ resp = NoAnswer
    /\ reaper = "sleep"
    /\ ends = [s \in SIDs |-> 0]
    /\ touched = {}
    /\ acc = [s \in SIDs |-> -1]

\* time.time() advances
Tick ==
    /\ now < MaxTime
    /\ now' = now + 1
    /\ resp' = NoAnswer
    /\ acc' = [s \in SIDs |-> AccTick(acc[s], now + 1)]
    /\ UNCHANGED <<sessions, pending, ends, touched, reaper>>

\* ---- POST /api/sessions/create -------------------------------------------
\* The INSERT's tuple reads the clock twice, created_at first: t_created is
\* the second of the first read, and the step happens in the second of the
\* second read (the same, or the next when the second rolled over in
\* between).  make_token's reads fall in the second of the first read.
\* A duplicate session_id violates the PRIMARY KEY: the INSERT raises, the
\* table stays as it was and the request ends in a 500.
create_session(user_id, s_id, jti, t_created) ==
    LET ins == InsertRow(sessions, s_id, user_id, t_created, now, jti) IN
    /\ sessions' = ins.tbl
    /\ IF ~ins.ok
       THEN /\ resp' = Answer("create", "insert", NoBearer, s_id, 500,
                              "IntegrityError", TRUE)
            /\ UNCHANGED acc
       ELSE /\ resp' = [Answer("create", "insert", NoBearer, s_id, 200, "", TRUE)
                          EXCEPT !.session_id = s_id,
                                 !.rem = SESSION_IDLE_TIMEOUT]
            /\ acc' = [acc EXCEPT ![s_id] = now]
    /\ UNCHANGED <<now, pending, ends, touched, reaper>>

\* uuid4() draws a caller's fresh id, or collides with an id in the table
CreateSession ==
    \E user_id \in Users, s_id \in Callers \cup DOMAIN sessions, jti \in GenJTIs,
       t_created \in {now - 1, now} \cap (0 .. MaxTime) :
        create_session(user_id, s_id, jti, t_created)

\* ---- POST /api/sessions/heartbeat ----------------------------------------
\* First statement: parse the token, SELECT the row, take the timestamp.
heartbeat_select(hdr) ==
    LET auth == parse_auth_token(hdr, now)
        row == SelectRow(sessions, hdr.sid, hdr.jti)
        job == [op |-> "heartbeat", sid |-> hdr.sid, ts |-> now] IN
    /\ IF auth # "ok"
       THEN /\ resp' = Answer("heartbeat", "select", hdr, "", 401, auth, FALSE)
            /\ UNCHANGED pending
       ELSE IF row = {}
       THEN /\ resp' = Answer("heartbeat", "select", hdr, hdr.sid, 401,
                              "Session not found", TRUE)
            /\ UNCHANGED pending
       ELSE IF ~(CHOOSE r \in row : TRUE).active
       THEN /\ resp' = Answer("heartbeat", "select", hdr, hdr.sid, 410,
                              "Session ended", TRUE)
            /\ UNCHANGED pending
       ELSE /\ Cardinality(pending \cup {job}) <= MaxInFlight
            /\ pending' = pending \cup {job}
            /\ resp' = Answer("heartbeat", "select", hdr, hdr.sid, 0, "", TRUE)
    /\ UNCHANGED <<now, sessions, ends, touched, acc, reaper>>

HeartbeatSelect == \E hdr \in Headers : heartbeat_select(hdr)

\* Second statement: UPDATE last_active with the timestamp taken, commit, 200.
heartbeat_update(job) ==
    /\ job.op = "heartbeat"
    /\ sessions' = UpdateLastActive(sessions, job.sid, job.ts)
    /\ pending' = pending \ {job}
    /\ resp' = [Answer("heartbeat", "update", NoBearer, job.sid, 200, "", TRUE)
                  EXCEPT !.rem = SESSION_IDLE_TIMEOUT]
    /\ touched' = touched \cup {job.sid}
    /\ acc' = [acc EXCEPT ![job.sid] = AccBeat(@, now)]
    /\ UNCHANGED <<now, ends, reaper>>

HeartbeatUpdate == \E job \in pending : heartbeat_update(job)

\* ---- POST /api/sessions/end ----------------------------------------------
end_session(hdr) ==
    LET auth == parse_auth_token(hdr, now) IN
    /\ IF auth # "ok"
       THEN /\ resp' = Answer("end", "update", hdr, "", 401, auth, FALSE)
            /\ UNCHANGED <<sessions, ends>>
       ELSE /\ sessions' = UpdateEnd(sessions, hdr.sid, hdr.jti)
            /\ resp' = Answer("end", "update", hdr, hdr.sid, 200, "", TRUE)
            /\ ends' = IF SelectRow(sessions, hdr.sid, hdr.jti) # {}
                       THEN [ends EXCEPT ![hdr.sid] = IF @ = 0 THEN 1 ELSE 2]
                       ELSE ends
    /\ UNCHANGED <<now, pending, touched, acc, reaper>>

EndSession == \E hdr \in Headers : end_session(hdr)

\* ---- GET /api/me ---------------------------------------------------------
\* mutant: a successful me counts as activity (writes last_active)
me_select_Touch(hdr) ==
    LET auth == parse_auth_token(hdr, now)
        row == SelectRow(sessions, hdr.sid, hdr.jti)
        job == [op |-> "me", sid |-> hdr.sid, ts |-> 0] IN
    /\ IF auth # "ok"
       THEN /\ resp' = Answer("me", "select", hdr, "", 401, auth, FALSE)
            /\ UNCHANGED <<pending, sessions>>
       ELSE IF row = {}
       THEN /\ resp' = Answer("me", "select", hdr, hdr.sid, 401,
                              "Session not found", TRUE)
            /\ UNCHANGED <<pending, sessions>>
       ELSE IF ~(CHOOSE r \in row : TRUE).active
       THEN /\ resp' = Answer("me", "select", hdr, hdr.sid, 410,
                              "Session ended", TRUE)
            /\ UNCHANGED <<pending, sessions>>
       ELSE IF now - (CHOOSE r \in row : TRUE).last_active > SESSION_IDLE_TIMEOUT
       THEN /\ Cardinality(pending \cup {job}) <= MaxInFlight
            /\ pending' = pending \cup {job}
            /\ resp' = Answer("me", "select", hdr, hdr.sid, 0, "", TRUE)
            /\ UNCHANGED sessions
       ELSE /\ resp' = [Answer("me", "select", hdr, hdr.sid, 200, "", TRUE)
                          EXCEPT !.user_id = hdr.sub, !.session_id = hdr.sid]
            /\ sessions' = UpdateLastActive(sessions, hdr.sid, now)
            /\ UNCHANGED pending
    /\ UNCHANGED <<now, ends, touched, acc, reaper>>

\* First statement: parse, SELECT, and the idle check on the row read.
me_select(hdr) ==
    LET auth == parse_auth_token(hdr, now)
        row == SelectRow(sessions, hdr.sid, hdr.jti)
        job == [op |-> "me", sid |-> hdr.sid, ts |-> 0] IN
    /\ IF auth # "ok"
       THEN /\ resp' = Answer("me", "select", hdr, "", 401, auth, FALSE)
            /\ UNCHANGED pending
       ELSE IF row = {}
       THEN /\ resp' = Answer("me", "select", hdr, hdr.sid, 401,
                              "Session not found", TRUE)
            /\ UNCHANGED pending
       ELSE IF ~(CHOOSE r \in row : TRUE).active
       THEN /\ resp' = Answer("me", "select", hdr, hdr.sid, 410,
                              "Session ended", TRUE)
            /\ UNCHANGED pending
       ELSE IF now - (CHOOSE r \in row : TRUE).last_active > SESSION_IDLE_TIMEOUT
       THEN /\ Cardinality(pending \cup {job}) <= MaxInFlight
            /\ pending' = pending \cup {job}
            /\ resp' = Answer("me", "select", hdr, hdr.sid, 0, "", TRUE)
       ELSE /\ resp' = [Answer("me", "select", hdr, hdr.sid, 200, "", TRUE)
                          EXCEPT !.user_id = hdr.sub, !.session_id = hdr.sid]
            /\ UNCHANGED pending
    /\ UNCHANGED <<now, sessions, ends, touched, acc, reaper>>

MeSelect == \E hdr \in Headers : me_select(hdr)

\* Second statement: deactivate the row, commit, 410 "Session expired".
me_expire(job) ==
    /\ job.op = "me"
    /\ sessions' = UpdateExpire(sessions, job.sid)
    /\ pending' = pending \ {job}
    /\ resp' = Answer("me", "expire", NoBearer, job.sid, 410, "Session expired", TRUE)
    /\ UNCHANGED <<now, ends, touched, acc, reaper>>

MeExpire == \E job \in pending : me_expire(job)

\* ---- cleanup_loop --------------------------------------------------------
\* mutant: the exception is not caught and ends the task
except_Exception_Raise == "dead"

\* `except Exception: pass`: the loop goes on to asyncio.sleep(60)
except_Exception == "sleep"

\* One round of the loop: the cutoff is computed in the second in which the
\* UPDATE runs; the UPDATE and its commit are one store step.
ReaperSweep ==
    /\ reaper = "sleep"
    /\ sessions' = SweepIdle(sessions, now - SESSION_IDLE_TIMEOUT)
    /\ resp' = Answer("sweep", "update", NoBearer, "", 0, "", TRUE)
    /\ UNCHANGED <<now, pending, reaper, ends, touched, acc>>

\* One round in which the store is unavailable: the statement raises,
\* `except Exception: pass`, and the loop sleeps until its next round.
ReaperFail ==
    /\ reaper = "sleep"
    /\ reaper' = except_Exception
    /\ resp' = Answer("sweep", "failed", NoBearer, "", 0, "", FALSE)
    /\ UNCHANGED <<now, sessions, pending, ends, touched, acc>>

Next ==
    \/ Tick
    \/ CreateSession
    \/ HeartbeatSelect
    \/ HeartbeatUpdate
    \/ EndSession
    \/ MeSelect
    \/ MeExpire
    \/ ReaperSweep
    \/ ReaperFail

Spec == Init /\ [][Next]_vars

\* The clock advances, and the reaper task, which loops for the life of the
\* process, gets a round in which the store is available whenever such a
\* round would change something.
FairSpec == Spec /\ WF_vars(Tick) /\ WF_vars(ReaperSweep)

\* ======================= properties =========================================
\* a first statement of heartbeat or me
Reads(r) == r.op \in {"heartbeat", "me"} /\ r.step = "select"
\* the first statement of a request that carries a bearer header
FirstStep(r) == Reads(r) \/ r.op = "end"
\* a correctly signed token before its hard expiry
Valid(h, t) == h.bearer /\ h.sig /\ h.exp > t
\* the token names a row of the table and carries that row's jti
OwnToken(h) == h.sid \in DOMAIN sessions /\ h.jti = sessions[h.sid].jti
\* the read was let through: me answered 200, heartbeat goes on to its UPDATE
Accepted(r) == r.status = 200 \/ (r.op = "heartbeat" /\ r.status = 0)

\* C1: once end_session has acknowledged a session's token, every heartbeat
\* and me whose read comes afterwards rejects that token: 410 while the
\* token is valid, 401 otherwise.
C1_EndedTokenRejected ==
    (Reads(resp) /\ OwnToken(resp.hdr) /\ ends[resp.hdr.sid] >= 1)
        => IF Valid(resp.hdr, now)
           THEN resp.status = 410 /\ resp.detail = "Session ended"
           ELSE resp.status = 401

C1_Witness ==
    /\ resp.op = "heartbeat" /\ resp.step = "select"
    /\ OwnToken(resp.hdr) /\ Valid(resp.hdr, now)
    /\ ends[resp.hdr.sid] >= 1
    /\ resp.status = 410

\* C2 (the claim): a heartbeat with a valid token of a session whose
\* last_active is more than the idle timeout in the past is answered 410 and
\* leaves the session ended.
C2_HeartbeatLazyExpiry ==
    (resp.op = "heartbeat" /\ resp.step = "select"
        /\ Valid(resp.hdr, now) /\ OwnToken(resp.hdr)
        /\ now - sessions[resp.hdr.sid].last_active > SESSION_IDLE_TIMEOUT)
        => (resp.status = 410 /\ ~sessions[resp.hdr.sid].active)

\* C3 (the claim): no reader lets through the token of a session that was
\* never touched since its creation once the clock exceeds
\* created_at + idle timeout.
C3_IdleSessionSeenEnded ==
    (Reads(resp) /\ Valid(resp.hdr, now) /\ OwnToken(resp.hdr)
        /\ resp.hdr.sid \notin touched
        /\ now > sessions[resp.hdr.sid].created_at + SESSION_IDLE_TIMEOUT)
        => ~Accepted(resp)

\* C4: the token create_session returned is let through by heartbeat and me
\* while no more than the idle timeout has passed since the creation and no
\* end_session was acknowledged; me answers the token's sub and sid, and the
\* heartbeat's answer is 200 with remaining_idle_seconds = the idle timeout.
C4_FreshTokenAccepted ==
    /\ (Reads(resp) /\ resp.hdr.sid \in DOMAIN sessions
          /\ resp.hdr = IssuedToken(sessions, resp.hdr.sid)
          /\ now - sessions[resp.hdr.sid].created_at <= SESSION_IDLE_TIMEOUT
          /\ ends[resp.hdr.sid] = 0)
         => /\ Accepted(resp)
            /\ resp.op = "me" => /\ resp.user_id = str(sessions[resp.hdr.sid].user_id)
                                 /\ resp.session_id = resp.hdr.sid
    /\ (resp.op = "heartbeat" /\ resp.step = "update")
         => (resp.status = 200 /\ resp.rem = SESSION_IDLE_TIMEOUT)

C4_Witness ==
    /\ resp.op = "heartbeat" /\ resp.step = "update"
    /\ resp.status = 200 /\ resp.rem = SESSION_IDLE_TIMEOUT
    /\ now = sessions[resp.sid].created_at
    /\ sessions[resp.sid].user_id = 42

\* C5 (the claim): a session whose heartbeats were each answered less than
\* the idle timeout after the previous one (or after the creation), the
\* running gap included, is active until its token's hard expiry or an
\* acknowledged end_session.
C5_TimelyHeartbeatsKeepActive ==
    \A s \in DOMAIN sessions :
        (acc[s] >= 0 /\ ends[s] = 0
            /\ now < sessions[s].created_at + ttl_seconds)
            => sessions[s].active

\* C6: end_session with a valid token of a known session answers the same
\* 200 every time and sets active=false on that row, nothing else; a call
\* after an acknowledged one leaves the table as it is.
C6_EndIdempotent ==
    [][(resp'.op = "end" /\ Valid(resp'.hdr, now) /\ OwnToken(resp'.hdr))
        => /\ resp'.status = 200 /\ resp'.detail = ""
           /\ sessions' = [sessions EXCEPT ![resp'.hdr.sid].active = FALSE]
           /\ ends[resp'.hdr.sid] >= 1 => sessions' = sessions]_vars

C6_Witness ==
    /\ resp.op = "end" /\ resp.status = 200
    /\ OwnToken(resp.hdr)
    /\ ends[resp.hdr.sid] = 2
    /\ ~sessions[resp.hdr.sid].active

\* C7: a valid token whose jti is not the jti of the row of its session_id
\* is answered 401 by heartbeat and me, and the step changes no row and
\* starts no write.
C7_WrongJtiRejected ==
    [][(Reads(resp') /\ Valid(resp'.hdr, now)
          /\ resp'.hdr.sid \in DOMAIN sessions
          /\ resp'.hdr.jti # sessions[resp'.hdr.sid].jti)
        => (resp'.status = 401 /\ sessions' = sessions /\ pending' = pending)]_vars

C7_Witness ==
    /\ Reads(resp) /\ Valid(resp.hdr, now)
    /\ resp.hdr.sid \in DOMAIN sessions
    /\ resp.hdr.jti # sessions[resp.hdr.sid].jti
    /\ sessions[resp.hdr.sid].active
    /\ resp.status = 401

\* C8 (the claim): end_session with a valid token answers 401 when the
\* session_id has no row or the row carries another jti.
C8_EndChecksRow ==
    (resp.op = "end" /\ Valid(resp.hdr, now) /\ ~OwnToken(resp.hdr))
        => resp.status = 401

\* C9: a request whose header is missing, or whose token fails verification
\* or is past its hard expiry, is answered 401 by a step that runs no
\* statement on the store, changes no row and starts no write.
C9_BadTokenNoStoreAccess ==
    [][(FirstStep(resp')
          /\ (~resp'.hdr.bearer \/ ~resp'.hdr.sig \/ resp'.hdr.exp <= now))
        => (resp'.status = 401 /\ ~resp'.db
            /\ sessions' = sessions /\ pending' = pending)]_vars

C9_Witness ==
    /\ resp.op = "end" /\ resp.status = 401 /\ ~resp.db
    /\ resp.hdr.bearer /\ ~resp.hdr.sig
    /\ OwnToken(resp.hdr)
    /\ sessions[resp.hdr.sid].active

C11_MeKeepsLastActive ==
    [][resp'.op = "me"
        => /\ DOMAIN sessions' = DOMAIN sessions
           /\ \A s \in DOMAIN sessions :
                 sessions'[s].last_active = sessions[s].last_active]_vars

\* me answered 200 in a later second than the row's last_active, which stays
C11_Witness ==
    /\ resp.op = "me" /\ resp.status = 200
    /\ OwnToken(resp.hdr)
    /\ now > sessions[resp.hdr.sid].last_active

\* C12: me with a valid token of an active row: when the row's last_active
\* lies more than SESSION_IDLE_TIMEOUT in the past, the read goes on to the
\* deactivating UPDATE, whose answer is 410 "Session expired" with the row
\* stored inactive; otherwise me answers 200 with the token's sub and sid.
C12_MeLazyExpiry ==
    /\ (resp.op = "me" /\ resp.step = "select" /\ Valid(resp.hdr, now)
            /\ OwnToken(resp.hdr) /\ sessions[resp.hdr.sid].active)
        => IF now - sessions[resp.hdr.sid].last_active > SESSION_IDLE_TIMEOUT
           THEN /\ resp.status = 0
                /\ [op |-> "me", sid |-> resp.hdr.sid, ts |-> 0] \in pending
           ELSE /\ resp.status = 200
                /\ resp.user_id = resp.hdr.sub
                /\ resp.session_id = resp.hdr.sid
    /\ (resp.op = "me" /\ resp.step = "expire")
        => /\ resp.status = 410 /\ resp.detail = "Session expired"
           /\ ~sessions[resp.sid].active

\* me has answered 410 "Session expired" for a session nobody ended
C12_Witness ==
    /\ resp.op = "me" /\ resp.step = "expire" /\ resp.status = 410
    /\ ends[resp.sid] = 0
    /\ ~sessions[resp.sid].active

\* C13: a heartbeat or me read with a valid token answers 401 when no row
\* carries the token's sid and jti, and leads to 410 exactly when that row
\* exists and is ended or idle for more than SESSION_IDLE_TIMEOUT (me's 410
\* follows its deactivating UPDATE).
C13_StatusFollowsCheckOrder ==
    (Reads(resp) /\ Valid(resp.hdr, now))
        => IF ~OwnToken(resp.hdr)
           THEN resp.status = 401
           ELSE (resp.status = 410 \/ (resp.op = "me" /\ resp.status = 0))
                <=> \/ ~sessions[resp.hdr.sid].active
                    \/ now - sessions[resp.hdr.sid].last_active
                           > SESSION_IDLE_TIMEOUT

\* C14: in every step of every interleaving of requests and sweeps, a row
\* that is stored inactive stays in the table and stays inactive.
C14_ActiveOnlyFalls ==
    [][\A s \in DOMAIN sessions :
          ~sessions[s].active
              => s \in DOMAIN sessions' /\ ~sessions'[s].active]_vars

\* a heartbeat's UPDATE has committed on a row that was ended after the
\* heartbeat's read, and the row is still inactive
C14_Witness ==
    /\ resp.op = "heartbeat" /\ resp.step = "update"
    /\ resp.sid \in DOMAIN sessions
    /\ ends[resp.sid] >= 1
    /\ ~sessions[resp.sid].active

\* C15: the committed last_active of a row never decreases, in any step of
\* any interleaving, two concurrent heartbeats included.
C15_LastActiveMonotone ==
    [][\A s \in DOMAIN sessions :
          s \in DOMAIN sessions'
              /\ sessions'[s].last_active >= sessions[s].last_active]_vars

\* C16: once a row is stored inactive, its last_active never changes again,
\* also when a heartbeat read the row while it was still active.
C16_NoTouchAfterDeactivation ==
    [][\A s \in DOMAIN sessions :
          ~sessions[s].active
              => sessions'[s].last_active = sessions[s].last_active]_vars

\* C17: a row is deactivated for idleness, by me's UPDATE or by a sweep,
\* only if it is still idle when the deactivation commits: its committed
\* last_active then lies more than SESSION_IDLE_TIMEOUT behind the clock.
C17_ExpiryRechecksIdleness ==
    [][(resp'.op \in {"me", "sweep"})
        => \A s \in DOMAIN sessions :
              (sessions[s].active /\ ~sessions'[s].active)
                  => now - sessions[s].last_active > SESSION_IDLE_TIMEOUT]_vars

\* the rows a sweep at time t has to deactivate
Idle(tbl, t) ==
    {s \in DOMAIN tbl :
        tbl[s].active /\ tbl[s].last_active < t - SESSION_IDLE_TIMEOUT}

\* C18: with a fairly scheduled reaper and a store that is available again
\* and again, the table is again and again without a row that is active and
\* idle past the timeout; a row stored inactive stays so, hence an active
\* row whose last_active is no longer written is eventually stored inactive
\* once the clock has left it SESSION_IDLE_TIMEOUT behind.  And every sweep
\* deactivates exactly the rows with active and
\* last_active < now - SESSION_IDLE_TIMEOUT and leaves every other row as it
\* was.
C18_ReaperEndsSilentSessions ==
    /\ []<>(Idle(sessions, now) = {})
    /\ [][(resp'.op = "sweep" /\ resp'.step = "update")
            => sessions' =
                 [s \in DOMAIN sessions |->
                     IF s \in Idle(sessions, now)
                     THEN [sessions[s] EXCEPT !.active = FALSE]
                     ELSE sessions[s]]]_vars

\* a sweep has deactivated the silent session, which no request ever named,
\* and has left the caller's active session alone
C18_Witness ==
    /\ resp.op = "sweep" /\ resp.step = "update"
    /\ Abandoned \in DOMAIN sessions /\ ~sessions[Abandoned].active
    /\ \E s \in Callers : s \in DOMAIN sessions /\ sessions[s].active

\* C19: a reaper round that fails because the store is unavailable changes
\* no row and no request in progress, and leaves the loop waiting for its
\* next round.
C19_FailedSweepHarmless ==
    [][(resp'.op = "sweep" /\ resp'.step = "failed")
        => /\ sessions' = sessions
           /\ pending' = pending
           /\ reaper' = "sleep"]_vars

\* a round has failed while an idle active row and a request in progress
\* were waiting; both are still there and the loop is alive
C19_Witness ==
    /\ resp.op = "sweep" /\ resp.step = "failed"
    /\ reaper = "sleep"
    /\ Idle(sessions, now) # {}
    /\ pending # {}

\* C20: create_session never modifies or replaces a row: a create whose
\* session_id is already in the table is rejected and leaves the table as
\* it was; every other create succeeds, leaves every existing row as it was
\* and adds one row under the new session_id, with active=true and
\* created_at = last_active.
C20_CreateAddsOneFreshRow ==
    [][(resp'.op = "create")
        => IF resp'.sid \in DOMAIN sessions
           THEN resp'.status # 200 /\ sessions' = sessions
           ELSE /\ resp'.status = 200
                /\ DOMAIN sessions' = DOMAIN sessions \cup {resp'.sid}
                /\ \A s \in DOMAIN sessions : sessions'[s] = sessions[s]
                /\ sessions'[resp'.sid].active
                /\ sessions'[resp'.sid].created_at
                       = sessions'[resp'.sid].last_active]_vars

====
